---- MODULE Spec2Model ----
(***************************************************************************)
(* Model of the provider fallback chain of main.py: get_weather, the three *)
(* keyed fetchers, the OpenWeather geocoding step with the keyless         *)
(* open-meteo fetcher, the in-memory weather_cache and the input           *)
(* normalisation done by main.                                             *)
(*                                                                         *)
(* Strings are sequences of one-character strings, so that lower(),        *)
(* strip() and the f-string that builds the cache key are computed, not    *)
(* assumed.                                                                *)
(***************************************************************************)
EXTENDS Integers, Sequences, FiniteSets, TLC

\* ------------------------------------------------------------------ bounds
\* Number of get_weather calls explored in one process lifetime.
MaxFetches == 2

\* ----------------------------------------------------------------- strings
UpperAlpha == <<"A","B","C","D","E","F","G","H","I","J","K","L","M",
                "N","O","P","Q","R","S","T","U","V","W","X","Y","Z">>
LowerAlpha == <<"a","b","c","d","e","f","g","h","i","j","k","l","m",
                "n","o","p","q","r","s","t","u","v","w","x","y","z">>

Chars == {UpperAlpha[i] : i \in 1..Len(UpperAlpha)}
            \cup {LowerAlpha[i] : i \in 1..Len(LowerAlpha)} \cup {" ", "_"}

LowerChar ==
    [c \in Chars |->
        IF \E i \in 1..Len(UpperAlpha) : UpperAlpha[i] = c
        THEN LowerAlpha[CHOOSE i \in 1..Len(UpperAlpha) : UpperAlpha[i] = c]
        ELSE c]

\* str.lower()
Lower(s) == [i \in 1..Len(s) |-> LowerChar[s[i]]]

IsSpace(c) == c = " "

RECURSIVE LStrip(_)
LStrip(s) == IF s # <<>> /\ IsSpace(Head(s)) THEN LStrip(Tail(s)) ELSE s

RECURSIVE RStrip(_)
RStrip(s) ==
    IF s # <<>> /\ IsSpace(s[Len(s)]) THEN RStrip(SubSeq(s, 1, Len(s) - 1)) ELSE s

\* str.strip()
Strip(s) == RStrip(LStrip(s))

\* ------------------------------------------------------------------ inputs
London    == <<"L","o","n","d","o","n">>
LONDON    == <<"L","O","N","D","O","N">>
london_sp == <<" ","l","o","n","d","o","n"," ">>
exit_sp   == <<"E","x","i","t"," ">>

metric   == <<"m","e","t","r","i","c">>
imperial == <<"i","m","p","e","r","i","a","l">>

\* Place names handed to get_weather by a caller of the function.
Cities == {London, LONDON, london_sp}
UnitSystems == {metric, imperial}
\* Lines typed at main's two prompts.
CityLines == {london_sp, exit_sp}
UnitLines == {<<" ","C">>, <<"f">>}

\* --------------------------------------------------------------- providers
\* The tuple get_weather iterates over.
fetchers == <<"openweather", "weatherapi", "visualcrossing">>

Keyed == {fetchers[i] : i \in 1..Len(fetchers)}

StaticPos(p) == CHOOSE i \in 1..Len(fetchers) : fetchers[i] = p

\* The keyed providers by descending success count, ties in the static order.
attempt_order_adaptive(stats) ==
    CHOOSE s \in [1..Len(fetchers) -> Keyed] :
        /\ \A p \in Keyed : \E i \in 1..Len(fetchers) : s[i] = p
        /\ \A i, j \in 1..Len(fetchers) :
              i < j => \/ stats[s[i]] > stats[s[j]]
                       \/ /\ stats[s[i]] = stats[s[j]]
                          /\ StaticPos(s[i]) < StaticPos(s[j])

\* `for fetcher in (fetch_openweather, fetch_weatherapi, fetch_visualcrossing)`:
\* the order in which a call tries the keyed providers, given the success
\* counts so far. The loop iterates over a literal tuple.
attempt_order(stats) == fetchers

fetcher_name(p) ==
    CASE p = "openweather"    -> "fetch_openweather"
      [] p = "weatherapi"     -> "fetch_weatherapi"
      [] p = "visualcrossing" -> "fetch_visualcrossing"

\* What a keyed vendor does with a request, were one sent to it:
\*   ok        a well-formed success body
\*   error     a failure get_weather has an except clause for, either
\*               vendor   a body the fetcher turns into WeatherProviderError
\*               network  requests.RequestException (timeout, HTTP status)
\*   malformed a decoded body of an unexpected shape: inspecting it raises
\*             AttributeError / TypeError inside the fetcher
Answers == {"ok", "error", "malformed"}

VARIABLES
    api_key,        \* provider -> whether its *_API_KEY is set (truthy)
    weather_cache,  \* the module-level dict: cache key -> result
    pc,             \* position of the process
    city, units,    \* arguments of the get_weather call in progress / last made
    cache_key,      \* local of get_weather
    idx,            \* position of the for loop over fetchers
    errors,         \* local list of get_weather
    env,            \* what each keyed vendor answers during this call
    data,           \* payload the vendors answer with during this call: the
                    \* weather changes from one call to the next
    outcome,        \* how the last get_weather call ended
    requests,       \* HTTP requests issued by the call in progress / last made
    invoked,        \* fetchers called by the call in progress / last made
    failed,         \* attempts of this call that did not produce a result
    successes,      \* provider -> number of results it has produced so far
    first_result,   \* cache key -> the first result a call returned for it
    origin,         \* cache key -> lower-cased place name and unit system of
                    \* the call that obtained the first result for it
    nfetch          \* get_weather calls made so far

vars == <<api_key, weather_cache, pc, city, units, cache_key, idx, errors, env,
          data, outcome, requests, invoked, failed, successes, first_result,
          origin, nfetch>>

AllProviders == Keyed \cup {"open-meteo"}

NoOutcome == [kind |-> "none"]
Returned(r, hit) == [kind |-> "returned", value |-> r, hit |-> hit]
\* raise RuntimeError("All weather providers failed:\n" + "\n".join(errors))
RuntimeError(errs) == [kind |-> "RuntimeError", causes |-> errs]
\* an exception that no except clause of get_weather matches
Unhandled(p) == [kind |-> "unhandled", from |-> p]

\* (variant: the unit system is left out of the key)
make_cache_key_nounits(c, u) == Lower(c) \o <<"_">>

\* f"{city.lower()}_{units}"
make_cache_key(c, u) == Lower(c) \o <<"_">> \o u

\* (variant: the dict is rebuilt around the new entry)
CachePut_clearing(cache, k, r) == [x \in {k} |-> r]

\* (variant: the assignment is lost)
CachePut_dropped(cache, k, r) == cache

\* dict assignment weather_cache[k] = r
CachePut(cache, k, r) ==
    [x \in (DOMAIN cache) \cup {k} |-> IF x = k THEN r ELSE cache[x]]

ProviderResult(p, d) == [provider |-> p, data |-> d]

Init ==
    /\ api_key \in [Keyed -> BOOLEAN]
    /\ weather_cache = <<>>
    /\ pc = "idle"
    /\ city = <<>> /\ units = <<>> /\ cache_key = <<>>
    /\ idx = 1
    /\ errors = <<>>
    /\ env = [p \in Keyed |-> "error"]
    /\ data = 0
    /\ outcome = NoOutcome
    /\ requests = <<>>
    /\ invoked = <<>>
    /\ failed = <<>>
    /\ successes = [p \in AllProviders |-> 0]
    /\ first_result = <<>>
    /\ origin = <<>>
    /\ nfetch = 0

\* Bookkeeping of a call that returns result r obtained from provider p.
Produced(p, r) ==
    /\ successes' = [successes EXCEPT ![p] = @ + 1]
    /\ first_result' = IF cache_key \in DOMAIN first_result
                       THEN first_result
                       ELSE [k \in (DOMAIN first_result) \cup {cache_key} |->
                               IF k = cache_key THEN r ELSE first_result[k]]
    /\ origin' = IF cache_key \in DOMAIN origin
                 THEN origin
                 ELSE [k \in (DOMAIN origin) \cup {cache_key} |->
                         IF k = cache_key THEN <<Lower(city), units>> ELSE origin[k]]

\* --------------------------------------------------------- get_weather entry
\* The answers the vendors may have in store for one call. A vendor whose key
\* is not configured is never asked: its answer is left fixed.
Envs == {e \in [Keyed -> Answers] : \A p \in Keyed : ~api_key[p] => e[p] = "error"}

Enter(c, u, k, e) ==
    /\ city' = c /\ units' = u
    /\ cache_key' = k
    /\ env' = e /\ data' = nfetch + 1
    /\ nfetch' = nfetch + 1
    /\ requests' = <<>> /\ invoked' = <<>> /\ failed' = <<>>
    /\ errors' = <<>> /\ idx' = 1
    /\ UNCHANGED <<api_key, weather_cache, successes, first_result, origin>>

\* weather_cache[cache_key]
CacheGet(cache, k) == cache[k]

\* (variant: the cached entry is found but the function does not return)
CacheHit_noreturn(c, u, k, e) ==
    /\ k \in DOMAIN weather_cache
    /\ Enter(c, u, k, e)
    /\ outcome' = NoOutcome
    /\ pc' = "providers"

\* if cache_key in weather_cache: return weather_cache[cache_key]
CacheHit(c, u, k, e) ==
    /\ k \in DOMAIN weather_cache
    /\ Enter(c, u, k, e)
    /\ outcome' = Returned(CacheGet(weather_cache, k), TRUE)
    /\ pc' = "idle"

CacheMiss(c, u, k, e) ==
    /\ k \notin DOMAIN weather_cache
    /\ Enter(c, u, k, e)
    /\ outcome' = NoOutcome
    /\ pc' = "providers"

get_weather(c, u) ==
    /\ pc = "idle"
    /\ nfetch < MaxFetches
    /\ LET k == make_cache_key(c, u) IN
          \E e \in Envs : CacheHit(c, u, k, e) \/ CacheMiss(c, u, k, e)

\* ------------------------------------------------------- the keyed fetchers
\* (variant: the key is checked after the request)
SendsRequest_always(p) == TRUE

\* `if not X_API_KEY: raise WeatherProviderError(...)` precedes requests.get
SendsRequest(p) == api_key[p]

\* How the call fetcher(city, units) ends.
fetch_keyed(p) == IF ~api_key[p] THEN "nokey" ELSE env[p]

\* The except clauses of the for loop:
\* WeatherProviderError (missing key, vendor error) and requests.RequestException.
Caught(a) == a \in {"nokey", "error"}

\* Which of the caught failures answer a stands for.
Causes(a) == IF a = "nokey" THEN {"nokey"} ELSE {"vendor", "network"}

\* The string appended to errors for a caught failure of fetcher p.
AttemptError(p, a) == [who |-> fetcher_name(p), cause |-> a]

Attempt(p) ==
    /\ invoked' = Append(invoked, p)
    /\ requests' = IF SendsRequest(p) THEN Append(requests, p) ELSE requests

\* (variant: the result is returned without being stored)
ProviderSucceeds_nocache ==
    /\ pc = "providers"
    /\ LET p == attempt_order(successes)[idx] IN
          /\ fetch_keyed(p) = "ok"
          /\ Attempt(p)
          /\ outcome' = Returned(ProviderResult(p, data), FALSE)
          /\ Produced(p, ProviderResult(p, data))
    /\ pc' = "idle"
    /\ UNCHANGED <<api_key, weather_cache, city, units, cache_key, idx, errors,
                   env, data, failed, nfetch>>

\* result = fetcher(city, units); weather_cache[cache_key] = result; return
ProviderSucceeds ==
    /\ pc = "providers"
    /\ LET p == attempt_order(successes)[idx] IN
          /\ fetch_keyed(p) = "ok"
          /\ Attempt(p)
          /\ weather_cache' = CachePut(weather_cache, cache_key, ProviderResult(p, data))
          /\ outcome' = Returned(ProviderResult(p, data), FALSE)
          /\ Produced(p, ProviderResult(p, data))
    /\ pc' = "idle"
    /\ UNCHANGED <<api_key, city, units, cache_key, idx, errors, env, data,
                   failed, nfetch>>

\* (variant: a provider that failed is tried a second time)
ProviderFails_retry ==
    /\ pc = "providers"
    /\ LET p == attempt_order(successes)[idx]
           a == fetch_keyed(p) IN
          /\ Caught(a)
          /\ Attempt(p)
          /\ \E cause \in Causes(a) :
                /\ errors' = Append(errors, AttemptError(p, cause))
                /\ failed' = Append(failed, AttemptError(p, cause))
          /\ idx' = IF p \in {invoked[i] : i \in 1..Len(invoked)} THEN idx + 1 ELSE idx
    /\ pc' = IF idx' > Len(fetchers) THEN "fallback" ELSE "providers"
    /\ UNCHANGED <<api_key, weather_cache, city, units, cache_key, env, data,
                   outcome, successes, first_result, origin, nfetch>>

\* (variant: a provider without a key is passed over without a record)
ProviderFails_skip ==
    /\ pc = "providers"
    /\ LET p == attempt_order(successes)[idx]
           a == fetch_keyed(p) IN
          /\ Caught(a)
          /\ Attempt(p)
          /\ \E cause \in Causes(a) :
                /\ errors' = IF a = "nokey" THEN errors
                             ELSE Append(errors, AttemptError(p, cause))
                /\ failed' = IF a = "nokey" THEN failed
                             ELSE Append(failed, AttemptError(p, cause))
    /\ idx' = idx + 1
    /\ pc' = IF idx = Len(fetchers) THEN "fallback" ELSE "providers"
    /\ UNCHANGED <<api_key, weather_cache, city, units, cache_key, env, data,
                   outcome, successes, first_result, origin, nfetch>>

\* except WeatherProviderError / except requests.RequestException
ProviderFails ==
    /\ pc = "providers"
    /\ LET p == attempt_order(successes)[idx]
           a == fetch_keyed(p) IN
          /\ Caught(a)
          /\ Attempt(p)
          /\ \E cause \in Causes(a) :
                /\ errors' = Append(errors, AttemptError(p, cause))
                /\ failed' = Append(failed, AttemptError(p, cause))
    /\ idx' = idx + 1
    /\ pc' = IF idx = Len(fetchers) THEN "fallback" ELSE "providers"
    /\ UNCHANGED <<api_key, weather_cache, city, units, cache_key, env, data,
                   outcome, successes, first_result, origin, nfetch>>

\* any other exception leaves the loop and get_weather
ProviderRaises ==
    /\ pc = "providers"
    /\ LET p == attempt_order(successes)[idx]
           a == fetch_keyed(p) IN
          /\ a # "ok" /\ ~Caught(a)
          /\ Attempt(p)
          /\ failed' = Append(failed, AttemptError(p, a))
          /\ outcome' = Unhandled(p)
    /\ pc' = "idle"
    /\ UNCHANGED <<api_key, weather_cache, city, units, cache_key, idx, errors,
                   env, data, successes, first_result, origin, nfetch>>

\* ------------------------------------------------------ the keyless fallback
FallbackError(a) == [who |-> "open_meteo fallback geocode", cause |-> a]

\* (variant: any configured keyed provider serves as geocoder)
GeocoderAvailable_any == \E p \in Keyed : api_key[p]

\* `if OPENWEATHER_API_KEY:` guards the geocoding request, which goes to
\* OpenWeather's geo/1.0/direct endpoint only.
GeocoderAvailable == api_key["openweather"]

\* (variant: without a geocoder the keyless provider is called all the same)
FallbackSkipped_keyless ==
    /\ pc = "fallback"
    /\ ~GeocoderAvailable
    /\ pc' = "open_meteo"
    /\ UNCHANGED <<api_key, weather_cache, city, units, cache_key, idx, errors,
                   env, data, outcome, requests, invoked, failed, successes,
                   first_result, origin, nfetch>>

\* `if OPENWEATHER_API_KEY:` is false: straight to the raise
FallbackSkipped ==
    /\ pc = "fallback"
    /\ ~GeocoderAvailable
    /\ outcome' = RuntimeError(errors)
    /\ pc' = "idle"
    /\ UNCHANGED <<api_key, weather_cache, city, units, cache_key, idx, errors,
                   env, data, requests, invoked, failed, successes, first_result, origin, nfetch>>

\* requests.get(geo_url); raise_for_status(); glist = r.json(); glist[0]["lat"]
\*   found   a non-empty list whose first entry has lat and lon
\*   empty   an empty list: the if body is skipped, nothing is appended
\*   error   any exception: caught by `except Exception`
Geocode(g) ==
    /\ pc = "fallback"
    /\ GeocoderAvailable
    /\ requests' = Append(requests, "geocode")
    /\ invoked' = Append(invoked, "geocode")
    /\ CASE g = "found" ->
              /\ pc' = "open_meteo"
              /\ UNCHANGED <<errors, failed, outcome>>
         [] g = "empty" ->
              /\ failed' = Append(failed, FallbackError("empty"))
              /\ outcome' = RuntimeError(errors)
              /\ pc' = "idle"
              /\ UNCHANGED errors
         [] g = "error" ->
              /\ errors' = Append(errors, FallbackError("geocode"))
              /\ failed' = Append(failed, FallbackError("geocode"))
              /\ outcome' = RuntimeError(errors')
              /\ pc' = "idle"
    /\ UNCHANGED <<api_key, weather_cache, city, units, cache_key, idx, env,
                   data, successes, first_result, origin, nfetch>>

\* om = fetch_open_meteo(lat, lon, units); weather_cache[cache_key] = om; return om
OpenMeteoSucceeds ==
    /\ pc = "open_meteo"
    /\ requests' = Append(requests, "open-meteo")
    /\ invoked' = Append(invoked, "open-meteo")
    /\ weather_cache' = CachePut(weather_cache, cache_key, ProviderResult("open-meteo", data))
    /\ outcome' = Returned(ProviderResult("open-meteo", data), FALSE)
    /\ Produced("open-meteo", ProviderResult("open-meteo", data))
    /\ pc' = "idle"
    /\ UNCHANGED <<api_key, city, units, cache_key, idx, errors, env, data,
                   failed, nfetch>>

\* (variant: the failure is remembered in the cache)
OpenMeteoFails_cached ==
    /\ pc = "open_meteo"
    /\ requests' = Append(requests, "open-meteo")
    /\ invoked' = Append(invoked, "open-meteo")
    /\ errors' = Append(errors, FallbackError("open-meteo"))
    /\ failed' = Append(failed, FallbackError("open-meteo"))
    /\ outcome' = RuntimeError(errors')
    /\ weather_cache' = CachePut(weather_cache, cache_key, ProviderResult("open-meteo", 0))
    /\ pc' = "idle"
    /\ UNCHANGED <<api_key, city, units, cache_key, idx, env,
                   data, successes, first_result, origin, nfetch>>

\* fetch_open_meteo raises (anything): caught by `except Exception`
OpenMeteoFails ==
    /\ pc = "open_meteo"
    /\ requests' = Append(requests, "open-meteo")
    /\ invoked' = Append(invoked, "open-meteo")
    /\ errors' = Append(errors, FallbackError("open-meteo"))
    /\ failed' = Append(failed, FallbackError("open-meteo"))
    /\ outcome' = RuntimeError(errors')
    /\ pc' = "idle"
    /\ UNCHANGED <<api_key, weather_cache, city, units, cache_key, idx, env,
                   data, successes, first_result, origin, nfetch>>

\* ----------------------------------------------------------------- main loop
\* units = "metric" if units_choice == "c" else "imperial"
units_of(line) == IF Strip(Lower(line)) = <<"c">> THEN metric ELSE imperial

\* city = input().strip(); ...; get_weather(city, units)
MainFetch(line, choice) ==
    /\ Lower(Strip(line)) # <<"e","x","i","t">>
    /\ Strip(line) # <<>>
    /\ get_weather(Strip(line), units_of(choice))

\* if city.lower() == "exit": break
MainExit(line) ==
    /\ pc = "idle"
    /\ Lower(Strip(line)) = <<"e","x","i","t">>
    /\ pc' = "exited"
    /\ UNCHANGED <<api_key, weather_cache, city, units, cache_key, idx, errors,
                   env, data, outcome, requests, invoked, failed, successes,
                   first_result, origin, nfetch>>

\* get_weather called as a function of the module
Call == \E c \in Cities, u \in UnitSystems : get_weather(c, u)

Main ==
    \/ \E line \in CityLines, choice \in UnitLines : MainFetch(line, choice)
    \/ \E line \in CityLines : MainExit(line)

Next ==
    \/ Call
    \/ Main
    \/ ProviderSucceeds
    \/ ProviderFails
    \/ ProviderRaises
    \/ FallbackSkipped
    \/ \E g \in {"found", "empty", "error"} : Geocode(g)
    \/ OpenMeteoSucceeds
    \/ OpenMeteoFails

Spec == Init /\ [][Next]_vars

TypeOK ==
    /\ pc \in {"idle", "providers", "fallback", "open_meteo", "exited"}
    /\ idx \in 1..(Len(fetchers) + 1)
    /\ nfetch \in 0..MaxFetches
    /\ outcome.kind \in {"none", "returned", "RuntimeError", "unhandled"}

\* ==================================================================== claims
Range(s) == {s[i] : i \in 1..Len(s)}
Pos(s, x) == CHOOSE i \in 1..Len(s) : s[i] = x
InFlight == pc \in {"providers", "fallback", "open_meteo"}
\* The last call has ended (outcome is reset when a call misses the cache).
Ended == outcome.kind # "none"
Hit == outcome.kind = "returned" /\ outcome.hit
\* A call of get_weather begins in this step.
Begins == nfetch' = nfetch + 1

\* C1 - Cache idempotence: once a call has returned a result for a cache key,
\* every later call with the same key returns that first result and calls no
\* fetcher and issues no HTTP request, whatever the vendors would answer.
C1_CacheIdempotence ==
    [][ (Begins /\ cache_key' \in DOMAIN first_result)
          => /\ pc' = "idle"
             /\ outcome' = Returned(first_result[cache_key'], TRUE)
             /\ requests' = <<>>
             /\ invoked' = <<>> ]_vars

\* A call hit the cache although the first provider would have answered,
\* with newer data, and the entry dates from an earlier call.
C1_Witness ==
    /\ Hit
    /\ outcome.value.data < data
    /\ fetch_keyed(fetchers[1]) = "ok"
    /\ requests = <<>>

\* C2 - Fallback order and short-circuit, as claimed: on a cache miss, when some
\* keyed provider is configured and would answer successfully, the call
\* returns the result of the first such provider in attempt order, having
\* invoked exactly the providers up to it (whatever way the earlier ones fail).
C2_FirstSuccessWins ==
    (Ended /\ ~Hit /\ \E i \in 1..Len(fetchers) : fetch_keyed(fetchers[i]) = "ok")
      => LET first == CHOOSE i \in 1..Len(fetchers) :
                         /\ fetch_keyed(fetchers[i]) = "ok"
                         /\ \A j \in 1..(i - 1) : fetch_keyed(fetchers[j]) # "ok"
         IN /\ outcome = Returned(ProviderResult(fetchers[first], data), FALSE)
            /\ invoked = SubSeq(fetchers, 1, first)

\* C3 - Provider fault isolation, as claimed: whatever way the fetcher called
\* in the loop fails, nothing propagates out of get_weather; one error naming
\* that fetcher is appended and the loop moves on to the next position.
C3_FaultIsolation ==
    [][ (pc = "providers" /\ fetch_keyed(attempt_order(successes)[idx]) # "ok")
          => /\ outcome'.kind # "unhandled"
             /\ Len(errors') = Len(errors) + 1
             /\ errors'[Len(errors')].who = fetcher_name(attempt_order(successes)[idx])
             /\ idx' = idx + 1
             /\ pc' \in {"providers", "fallback"} ]_vars

\* C4 - Total failure, as claimed: a call in which every keyed provider was
\* tried and failed in a way the loop handles, and which produced no result,
\* ends with the aggregate error, whose causes are one entry per keyed
\* provider followed by one entry for the geocoding / keyless fallback.
C4_TotalFailure ==
    (/\ Ended /\ outcome.kind # "returned"
     /\ Keyed \subseteq Range(invoked)
     /\ \A p \in Keyed : Caught(fetch_keyed(p)))
      => /\ outcome.kind = "RuntimeError"
         /\ Len(outcome.causes) = Len(fetchers) + 1
         /\ \A i \in 1..Len(fetchers) :
               outcome.causes[i].who = fetcher_name(fetchers[i])
         /\ outcome.causes[Len(fetchers) + 1].who = "open_meteo fallback geocode"

\* The call has ended after the three keyed providers failed, geocoding
\* answered a place and open-meteo was called without failing.
KeylessSucceeded ==
    /\ Ended
    /\ Len(invoked) = Len(fetchers) + 2
    /\ invoked[Len(invoked)] = "open-meteo"
    /\ Len(failed) = Len(fetchers)

PlaceNames == Cities \cup {Strip(line) : line \in CityLines}

\* C6 - Normalization, as claimed: a call whose place name equals, up to case
\* and surrounding whitespace, a name already fetched successfully with the
\* same unit system is a cache hit.
C6_Normalization ==
    [][ (/\ Begins
         /\ \E c \in PlaceNames :
               /\ Lower(Strip(c)) = Lower(Strip(city'))
               /\ make_cache_key(c, units') \in DOMAIN weather_cache)
          => (outcome'.kind = "returned" /\ outcome'.hit) ]_vars

\* C7 - Adaptive reordering, as claimed: a call in progress never has tried a
\* keyed provider while one with a strictly larger success count is untried.
C7_AdaptiveOrder ==
    InFlight =>
      \A a, b \in Keyed :
         (a \in Range(invoked) /\ successes[b] > successes[a])
           => (b \in Range(invoked) /\ Pos(invoked, b) < Pos(invoked, a))

\* C7 (amended) - the keyed providers are always tried in the fixed order
\* openweather, weatherapi, visualcrossing, whatever the success counts.
C7_StaticOrder ==
    \A i \in 1..Len(invoked) : i <= Len(fetchers) => invoked[i] = fetchers[i]

\* openweather (no success so far) has been tried first by a call in
\* progress although weatherapi has succeeded before.
C7_Witness ==
    /\ pc = "providers"
    /\ successes["weatherapi"] > 0
    /\ successes["openweather"] = 0
    /\ invoked = <<"openweather">>

\* C8 - Missing credential fails fast: no HTTP request is ever issued to the
\* weather endpoint of a provider whose key is not configured, and a call
\* to such a provider ends in its missing-key error.
C8_MissingCredential ==
    \A p \in Keyed :
       ~api_key[p] => /\ p \notin Range(requests)
                      /\ p \in Range(invoked) => AttemptError(p, "nokey") \in Range(errors)

\* An unconfigured provider was called in a call that also sent a request.
C8_Witness ==
    \E p, q \in Keyed :
       /\ ~api_key[p] /\ p \in Range(invoked)
       /\ q \in Range(requests)

\* C9 - as claimed: a call ends either with a result or with the aggregate
\* RuntimeError; no other exception reaches the caller.
C9_TwoOutcomes == Ended => outcome.kind \in {"returned", "RuntimeError"}

\* C10 - Aggregate error content and order, as claimed: a call that fails
\* fails with the aggregate error, and its causes are exactly the failed
\* attempts of that call, in the order they were made.
C10_AggregateErrors ==
    (Ended /\ outcome.kind # "returned")
      => (outcome.kind = "RuntimeError" /\ outcome.causes = failed)


\* Number of entries of sequence s equal to x.
Count(s, x) == Cardinality({i \in 1..Len(s) : s[i] = x})

\* C11 - An unconfigured provider is skipped, not reported, as claimed: the
\* aggregate error of a failed call has no cause for a provider whose key is
\* not configured.
C11_UnconfiguredNotReported ==
    outcome.kind = "RuntimeError"
      => \A p \in Keyed :
            ~api_key[p] => AttemptError(p, "nokey") \notin Range(outcome.causes)

\* C11 (amended) - a provider whose key is not configured is called, fails
\* without an HTTP request, and its missing-key error is one cause, exactly
\* once, of the aggregate error of a failed call.
C11_UnconfiguredReported ==
    outcome.kind = "RuntimeError"
      => \A p \in Keyed :
            ~api_key[p] => /\ Count(outcome.causes, AttemptError(p, "nokey")) = 1
                           /\ Count(failed, AttemptError(p, "nokey")) = 1
                           /\ p \notin Range(requests)

\* A call failed with the aggregate error while one provider had a key and
\* another had none.
C11_Witness ==
    /\ outcome.kind = "RuntimeError"
    /\ \E p, q \in Keyed : ~api_key[p] /\ api_key[q] /\ q \in Range(requests)


\* C12 - Cache population on success: when a call returns a result obtained
\* from a provider (keyed or keyless), the cache maps the call's own key,
\* the lower-cased place name joined to the unit system, to that result.
C12_CachePopulated ==
    (outcome.kind = "returned" /\ ~outcome.hit)
      => /\ cache_key = make_cache_key(city, units)
         /\ cache_key \in DOMAIN weather_cache
         /\ weather_cache[cache_key] = outcome.value
         /\ outcome.value.provider = invoked[Len(invoked)]

\* A keyed provider other than the first produced the result of a call made
\* when the cache already held another entry.
C12_Witness ==
    /\ outcome.kind = "returned" /\ ~outcome.hit
    /\ outcome.value.provider \in Keyed
    /\ Len(invoked) > 1
    /\ Cardinality(DOMAIN weather_cache) > 1


\* Every keyed provider has been tried and has failed in this call, then
\* geocoding was called and answered a place.
KeyedExhaustedAndLocated ==
    /\ Len(invoked) >= Len(fetchers) + 1
    /\ Keyed = {invoked[i] : i \in 1..Len(fetchers)}
    /\ \A i \in 1..Len(fetchers) :
          \E c \in {"nokey", "vendor", "network"} : failed[i] = AttemptError(invoked[i], c)
    /\ invoked[Len(fetchers) + 1] = "geocode"
    /\ FallbackError("empty") \notin Range(failed)
    /\ FallbackError("geocode") \notin Range(failed)

\* C13 - The keyless provider is invoked only through the geocoding path: it
\* is called (or about to be called) only after every keyed provider has been
\* tried and has failed in that call and geocoding has returned a place; it
\* is the last call made, and it is never called on a cache hit.
C13_KeylessOnlyViaGeocoding ==
    /\ (pc = "open_meteo" \/ "open-meteo" \in Range(invoked))
          => /\ KeyedExhaustedAndLocated
             /\ ~Hit
             /\ \A i \in 1..Len(invoked) :
                   invoked[i] = "open-meteo" => i = Len(fetchers) + 2
    /\ Hit => invoked = <<>>

\* open-meteo has been called in a call made by a process that has a key
\* for each keyed provider.
C13_Witness ==
    /\ "open-meteo" \in Range(invoked)
    /\ \A p \in Keyed : api_key[p]


\* The call has ended after each keyed provider was tried and failed in a
\* way the loop handles.
KeyedAllFailed ==
    /\ Ended /\ ~Hit
    /\ Keyed \subseteq Range(invoked)
    /\ \A p \in Keyed : Caught(fetch_keyed(p))

C15_NoRetries ==
    /\ \A x \in Range(invoked) : Count(invoked, x) = 1
    /\ Range(invoked) \subseteq Keyed \cup {"geocode", "open-meteo"}
    /\ Len(invoked) <= Len(fetchers) + 2
    /\ \A x \in Range(requests) : Count(requests, x) = 1
    /\ Len(requests) <= Len(invoked)

\* A call has made all five provider-level calls.
C15_Witness ==
    /\ Len(invoked) = Len(fetchers) + 2
    /\ Len(requests) = Len(fetchers) + 2


\* C16 - Cache entries are stable: a key present in the cache stays present
\* with the same value through every step of every later call.
C16_CacheStable ==
    [][ \A k \in DOMAIN weather_cache :
           /\ k \in DOMAIN weather_cache'
           /\ weather_cache'[k] = weather_cache[k] ]_vars

\* The entry stored by the first call is still there after the second call
\* stored another one.
C16_Witness ==
    /\ Cardinality(DOMAIN weather_cache) = 2
    /\ \E k \in DOMAIN weather_cache : weather_cache[k].data = 1
    /\ \E k \in DOMAIN weather_cache : weather_cache[k].data = 2


\* C17 - A failed call leaves the cache unchanged: the cache changes only in
\* a step that returns a provider's result, so a call that ends in an
\* exception has changed nothing; its key is not in the cache afterwards, and
\* the next call for the same key goes to the providers again.
C17_FailureNotCached ==
    [][ /\ weather_cache' # weather_cache
             => (outcome'.kind = "returned" /\ ~outcome'.hit)
        /\ outcome'.kind \in {"RuntimeError", "unhandled"}
             => cache_key' \notin DOMAIN weather_cache'
        /\ (Begins /\ outcome.kind \in {"RuntimeError", "unhandled"}
                   /\ cache_key' = cache_key)
             => pc' = "providers" ]_vars

\* A call failed with the aggregate error after trying open-meteo, while the
\* cache holds the entry of an earlier call.
C17_Witness ==
    /\ outcome.kind = "RuntimeError"
    /\ "open-meteo" \in Range(invoked)
    /\ weather_cache # <<>>


\* Queries the model makes: place name and unit system.
Queries == PlaceNames \X UnitSystems

\* The cache key of each query.
QueryKey == [q \in Queries |-> make_cache_key(q[1], q[2])]

\* C18 - Unit systems do not share cache entries: a query maps to the key of
\* a cache entry only if its lower-cased place name and its unit system are
\* those of the call that stored the entry; so a result cached for
\* (place, metric) is never returned for (place, imperial), and vice versa.
C18_UnitsSeparate ==
    /\ Hit => /\ cache_key \in DOMAIN origin
              /\ origin[cache_key] = <<Lower(city), units>>
    /\ \A k \in DOMAIN weather_cache : \A q \in Queries :
          QueryKey[q] = k => origin[k] = <<Lower(q[1]), q[2]>>

\* The cache holds one entry for a place in metric and another for the same
\* place in imperial units, obtained by two calls.
C18_Witness ==
    \E k1, k2 \in DOMAIN weather_cache :
       /\ origin[k1][1] = origin[k2][1]
       /\ origin[k1][2] = metric /\ origin[k2][2] = imperial
       /\ weather_cache[k1] # weather_cache[k2]

====
